---------------------------- MODULE Spec2Model ----------------------------
(***************************************************************************)
(* A model of src/src/calculator.rs: the f64 Calculator (current_value,    *)
(* a bounded history of HistoryEntry, max_history_size) and its public     *)
(* operations, the free function calculate_simple, and the constructors   *)
(* of src/src/shapes.rs.                                                   *)
(*                                                                         *)
(* f64 is modelled by a small binary-free format that keeps the IEEE 754   *)
(* value classes the code branches on:                                     *)
(*   - the finite values n / Scale for n in -MaxN .. MaxN (MaxN / Scale    *)
(*     plays f64::MAX, 1 / Scale the smallest positive value),             *)
(*   - +infinity (PInf), -infinity (NInf) and NaN.                         *)
(* A finite value is held as its numerator n; PInf, NInf and NaN are       *)
(* integers outside -MaxN .. MaxN.  Results are rounded to the nearest     *)
(* representable value (ties to even) and a rounded result beyond          *)
(* +-MaxN becomes +-infinity, as in IEEE arithmetic.  The sign of zero is  *)
(* not modelled: -0.0 == 0.0 in every comparison the code makes.           *)
(***************************************************************************)
EXTENDS Integers, Sequences, FiniteSets

\* ------------------------------------------------------------- bounds
\* Largest finite numerator: MaxN / Scale models f64::MAX.
MaxN == 4
\* Denominator of the finite values: 1 / Scale is the precision.
Scale == 2
\* Largest capacity passed to with_history_size.
MaxCap == 2
\* Largest number of calls made on one calculator.
MaxCalls == 3

\* ------------------------------------------------------------- f64
PInf == MaxN + 1
NInf == -(MaxN + 1)
NaN == MaxN + 2
Finite == (-MaxN) .. MaxN
F64 == Finite \cup {PInf, NInf, NaN}

\* f64::MAX and the literal 1.0
Max == MaxN
One == Scale

is_nan(x) == x = NaN
is_infinite(x) == x \in {PInf, NInf}
is_finite(x) == x \in Finite
\* Asked of infinities only by the code; NaN's sign bit is not modelled.
is_sign_positive(x) == x >= 0 /\ x # NaN

Abs(n) == IF n < 0 THEN -n ELSE n
Sgn(n) == IF n < 0 THEN -1 ELSE IF n > 0 THEN 1 ELSE 0

RECURSIVE IPow(_, _)
IPow(b, e) == IF e = 0 THEN 1 ELSE b * IPow(b, e - 1)

\* An exact integer numerator brought into the format: beyond +-MaxN the
\* result overflows to the infinity of its sign.
FromInt(p) == IF p > MaxN THEN PInf ELSE IF p < -MaxN THEN NInf ELSE p

\* p / q (q # 0) rounded to the nearest integer, ties to the even one.
RoundDiv(p, q) ==
    LET s == Sgn(p) * Sgn(q)
        P == Abs(p)
        Q == Abs(q)
        f == P \div Q
        r == P % Q
        m == IF 2 * r < Q THEN f
             ELSE IF 2 * r > Q THEN f + 1
             ELSE IF f % 2 = 0 THEN f ELSE f + 1
    IN  s * m

\* -x
FNeg(x) == IF is_nan(x) THEN NaN ELSE -x

\* a + b
FAdd(a, b) ==
    IF is_nan(a) \/ is_nan(b) THEN NaN
    ELSE IF is_infinite(a) /\ is_infinite(b) THEN (IF a = b THEN a ELSE NaN)
    ELSE IF is_infinite(a) THEN a
    ELSE IF is_infinite(b) THEN b
    ELSE FromInt(a + b)

\* a - b
FSub(a, b) == FAdd(a, FNeg(b))

\* a * b
FMul(a, b) ==
    IF is_nan(a) \/ is_nan(b) THEN NaN
    ELSE IF is_infinite(a) \/ is_infinite(b)
         THEN (IF a = 0 \/ b = 0 THEN NaN
               ELSE IF Sgn(a) * Sgn(b) > 0 THEN PInf ELSE NInf)
    ELSE FromInt(RoundDiv(a * b, Scale))

\* a / b
FDiv(a, b) ==
    IF is_nan(a) \/ is_nan(b) THEN NaN
    ELSE IF is_infinite(a) /\ is_infinite(b) THEN NaN
    ELSE IF is_infinite(a) THEN (IF Sgn(a) * Sgn(b) >= 0 THEN PInf ELSE NInf)
    ELSE IF is_infinite(b) THEN 0
    ELSE IF b = 0 THEN (IF a = 0 THEN NaN ELSE IF a > 0 THEN PInf ELSE NInf)
    ELSE FromInt(RoundDiv(a * Scale, b))

\* a % b (fmod: exact, with the sign of the dividend)
FRem(a, b) ==
    IF is_nan(a) \/ is_nan(b) THEN NaN
    ELSE IF is_infinite(a) \/ b = 0 THEN NaN
    ELSE IF is_infinite(b) THEN a
    ELSE Sgn(a) * (Abs(a) % Abs(b))

\* Whether the finite value n / Scale is an integer, and an odd one.
IsInteger(n) == n % Scale = 0
IsOddInteger(n) == IsInteger(n) /\ (Abs(n) \div Scale) % 2 = 1

\* (n / Scale) ^ (p / Scale) for n > 0, p # 0: the largest representable
\* value not above the exact power (powf is not correctly rounded), or PInf
\* when that is beyond MaxN.
PowMag(n, p) ==
    LET fits(r) == IF p > 0
                   THEN IPow(r, Scale) * IPow(Scale, p) <= IPow(n, p) * IPow(Scale, Scale)
                   ELSE IPow(r, Scale) * IPow(n, -p) <= IPow(Scale, Scale - p)
        r == CHOOSE r \in 0 .. (MaxN + 1) :
                 /\ fits(r)
                 /\ (r = MaxN + 1 \/ ~fits(r + 1))
    IN  IF r > MaxN THEN PInf ELSE r

\* a.powf(b), with the special cases of IEEE 754 pow
powf(a, b) ==
    IF b = 0 \/ a = One THEN One
    ELSE IF is_nan(a) \/ is_nan(b) THEN NaN
    ELSE IF is_infinite(b)
         THEN (IF Abs(a) = One THEN One
               ELSE IF (Abs(a) < One) = (b = PInf) THEN 0 ELSE PInf)
    ELSE IF a = PInf THEN (IF b > 0 THEN PInf ELSE 0)
    ELSE IF a = NInf
         THEN (IF b < 0 THEN 0 ELSE IF IsOddInteger(b) THEN NInf ELSE PInf)
    ELSE IF a = 0 THEN (IF b > 0 THEN 0 ELSE PInf)
    ELSE IF a < 0
         THEN (IF ~IsInteger(b) THEN NaN
               ELSE IF IsOddInteger(b) THEN FNeg(PowMag(-a, b))
               ELSE PowMag(-a, b))
    ELSE PowMag(a, b)

\* ------------------------------------------------------------- inputs
\* The operands the operations are called with: zero, the smallest positive
\* value, f64::MAX, -f64::MAX, +infinity and NaN.
Operands == {0, 1, Max, -Max, PInf, NaN}
\* The values set_value is called with: f64::MAX and the two values no
\* operation commits from a finite current_value.
SetValues == {Max, PInf, NaN}

\* ------------------------------------------------------------- state
VARIABLES
    current_value,     \* Calculator.current_value
    history,           \* Calculator.history, oldest entry first
    max_history_size,  \* Calculator.max_history_size
    recorded,          \* the number of entries pushed so far; the timestamp
                       \* SystemTime::now() gives an entry is modelled by the
                       \* entry's number in that order
    clock,             \* the number of calls made so far
    ret,               \* the last call made and what it returned
    cleared_nonzero,   \* history variable: clear_history was called at a
                       \* current_value other than 0
    before,            \* history variable: current_value before the last call
    value_set,         \* history variable: set_value or clear has been called
    accumulator,       \* the 64-bit integer calculator of src/src/tests.rs,
                       \* a separate object (see the accumulator section)
    shape              \* the last shape constructor called, with its
                       \* arguments and what it returned (src/src/shapes.rs)

calculator == <<current_value, history, max_history_size, recorded, clock, ret,
                cleared_nonzero, before, value_set>>
vars == <<calculator, accumulator, shape>>

\* What a call returned: Ok(value), Err(kind), or () for the unit methods.
Returned(op, operand, kind, value) ==
    [op |-> op, operand |-> operand, kind |-> kind, value |-> value]
Ok(v) == [kind |-> "Ok", value |-> v]
Err(e) == [kind |-> e, value |-> NaN]

HistoryEntry(operand1, operation, operand2, result, timestamp) ==
    [operand1 |-> operand1, operation |-> operation, operand2 |-> operand2,
     result |-> result, timestamp |-> timestamp]

\* Vec::remove(0)
RemoveFirst(v) == SubSeq(v, 2, Len(v))
\* Vec::pop's remainder
DropLast(v) == SubSeq(v, 1, Len(v) - 1)
Last(v) == v[Len(v)]

\* ------------------------------------------------------------- helpers
\* The history after record_operation, called before current_value is
\* assigned: the entry is pushed, then the oldest is removed if the length
\* exceeds max_history_size.
\* record_operation with the bound off by one: evicts only beyond
\* max_history_size + 1.
record_operation_off_by_one(operation, operand, result) ==
    LET entry == HistoryEntry(current_value, operation, operand, result, recorded + 1)
        pushed == Append(history, entry)
    IN  IF Len(pushed) > max_history_size + 1 THEN RemoveFirst(pushed) ELSE pushed

\* record_operation that makes room with pop() instead of remove(0).
record_operation_pops(operation, operand, result) ==
    LET entry == HistoryEntry(current_value, operation, operand, result, recorded + 1)
        pushed == Append(history, entry)
    IN  IF Len(pushed) > max_history_size THEN DropLast(pushed) ELSE pushed

\* record_operation that takes operand1 from the result being recorded
\* instead of from current_value.
record_operation_after_assignment(operation, operand, result) ==
    LET entry == HistoryEntry(result, operation, operand, result, recorded + 1)
        pushed == Append(history, entry)
    IN  IF Len(pushed) > max_history_size THEN RemoveFirst(pushed) ELSE pushed

record_operation(operation, operand, result) ==
    LET entry == HistoryEntry(current_value, operation, operand, result, recorded + 1)
        pushed == Append(history, entry)
    IN  IF Len(pushed) > max_history_size THEN RemoveFirst(pushed) ELSE pushed

check_overflow_add(a, b) ==
    LET result == FAdd(a, b)
    IN  IF ~is_finite(result)
        THEN (IF is_infinite(result) THEN Err("Overflow")
              ELSE Err("InvalidOperation"))
        ELSE Ok(result)

\* check_overflow_sub without the sign test: Underflow for either infinity.
check_overflow_sub_unsigned(a, b) ==
    LET result == FSub(a, b)
    IN  IF ~is_finite(result)
        THEN (IF is_infinite(result) THEN Err("Underflow")
              ELSE Err("InvalidOperation"))
        ELSE Ok(result)

check_overflow_sub(a, b) ==
    LET result == FSub(a, b)
    IN  IF ~is_finite(result)
        THEN (IF is_infinite(result)
              THEN (IF is_sign_positive(result) THEN Err("Overflow")
                    ELSE Err("Underflow"))
              ELSE Err("InvalidOperation"))
        ELSE Ok(result)

check_overflow_mul(a, b) ==
    LET result == FMul(a, b)
    IN  IF ~is_finite(result)
        THEN (IF is_infinite(result) THEN Err("Overflow")
              ELSE Err("InvalidOperation"))
        ELSE Ok(result)

\* One more call, while the run is within MaxCalls.
Tick == clock < MaxCalls /\ clock' = clock + 1

\* The common tail of the six operations: on Err nothing is written, on
\* Ok(result) the entry is recorded and current_value assigned.
Commit(name, operation, operand, r) ==
    /\ Tick
    /\ ret' = Returned(name, operand, r.kind, r.value)
    /\ IF r.kind = "Ok"
       THEN /\ history' = record_operation(operation, operand, r.value)
            /\ recorded' = recorded + 1
            /\ current_value' = r.value
       ELSE UNCHANGED <<current_value, history, recorded>>
    /\ UNCHANGED max_history_size

\* ------------------------------------------------------------- operations
with_history_size(max_size) ==
    /\ current_value = 0
    /\ history = <<>>
    /\ max_history_size = max_size
    /\ clock = 0
    /\ ret = Returned("with_history_size", max_size, "Unit", NaN)
    /\ recorded = 0
    /\ cleared_nonzero = FALSE
    /\ before = 0
    /\ value_set = FALSE

set_value(value) ==
    /\ Tick
    /\ current_value' = value
    /\ ret' = Returned("set_value", value, "Unit", NaN)
    /\ UNCHANGED <<history, max_history_size, recorded>>

clear ==
    /\ Tick
    /\ current_value' = 0
    /\ ret' = Returned("clear", NaN, "Unit", NaN)
    /\ UNCHANGED <<history, max_history_size, recorded>>

\* clear_history that resets the value as clear does.
clear_history_resets ==
    /\ Tick
    /\ history' = <<>>
    /\ current_value' = 0
    /\ ret' = Returned("clear_history", NaN, "Unit", NaN)
    /\ UNCHANGED <<max_history_size, recorded>>

clear_history ==
    /\ Tick
    /\ history' = <<>>
    /\ ret' = Returned("clear_history", NaN, "Unit", NaN)
    /\ UNCHANGED <<current_value, max_history_size, recorded>>

add(operand) ==
    Commit("add", "Add", operand, check_overflow_add(current_value, operand))

\* subtract that calls the addition helper.
subtract_adds(operand) ==
    Commit("subtract", "Subtract", operand,
           check_overflow_add(current_value, operand))

subtract(operand) ==
    Commit("subtract", "Subtract", operand,
           check_overflow_sub(current_value, operand))

\* multiply that records the entry and never assigns current_value.
multiply_keeps_value(operand) ==
    LET r == check_overflow_mul(current_value, operand)
    IN  /\ Tick
        /\ ret' = Returned("multiply", operand, r.kind, r.value)
        /\ history' = IF r.kind = "Ok"
                       THEN record_operation("Multiply", operand, r.value)
                       ELSE history
        /\ recorded' = IF r.kind = "Ok" THEN recorded + 1 ELSE recorded
        /\ UNCHANGED <<current_value, max_history_size>>

multiply(operand) ==
    Commit("multiply", "Multiply", operand,
           check_overflow_mul(current_value, operand))

\* divide that tests the quotient before the divisor.
divide_checks_late(operand) ==
    Commit("divide", "Divide", operand,
           LET result == FDiv(current_value, operand)
           IN  IF ~is_finite(result) THEN Err("Overflow")
               ELSE IF operand = 0 THEN Err("DivisionByZero")
               ELSE Ok(result))

divide(operand) ==
    Commit("divide", "Divide", operand,
           IF operand = 0 THEN Err("DivisionByZero")
           ELSE LET result == FDiv(current_value, operand)
                IN  IF ~is_finite(result) THEN Err("Overflow") ELSE Ok(result))

\* power that records and assigns before it tests the result.
power_commits_first(exponent) ==
    LET result == powf(current_value, exponent)
    IN  /\ Tick
        /\ history' = record_operation("Power", exponent, result)
        /\ recorded' = recorded + 1
        /\ current_value' = result
        /\ ret' = IF ~is_finite(result)
                   THEN Returned("power", exponent, "Overflow", NaN)
                   ELSE Returned("power", exponent, "Ok", result)
        /\ UNCHANGED max_history_size

power(exponent) ==
    Commit("power", "Power", exponent,
           LET result == powf(current_value, exponent)
           IN  IF ~is_finite(result) THEN Err("Overflow") ELSE Ok(result))

modulo(operand) ==
    Commit("modulo", "Modulo", operand,
           IF operand = 0 THEN Err("DivisionByZero")
           ELSE Ok(FRem(current_value, operand)))

\* undo that restores the popped entry's result instead of its operand1.
undo_takes_result ==
    /\ Tick
    /\ IF history # <<>>
       THEN /\ history' = DropLast(history)
            /\ current_value' = Last(history).result
            /\ ret' = Returned("undo", NaN, "Ok", Last(history).result)
       ELSE /\ ret' = Returned("undo", NaN, "HistoryEmpty", NaN)
            /\ UNCHANGED <<current_value, history>>
    /\ UNCHANGED <<max_history_size, recorded>>

undo ==
    /\ Tick
    /\ IF history # <<>>
       THEN /\ history' = DropLast(history)
            /\ current_value' = Last(history).operand1
            /\ ret' = Returned("undo", NaN, "Ok", Last(history).operand1)
       ELSE /\ ret' = Returned("undo", NaN, "HistoryEmpty", NaN)
            /\ UNCHANGED <<current_value, history>>
    /\ UNCHANGED <<max_history_size, recorded>>

\* The free function calculate_simple(a, operation, b): no calculator, no
\* history; every non-finite sum, product, quotient or power is Overflow and
\* every non-finite difference Underflow.
calculate_simple(a, operation, b) ==
    CASE operation = "Add" ->
           LET result == FAdd(a, b)
           IN  IF is_finite(result) THEN Ok(result) ELSE Err("Overflow")
      [] operation = "Subtract" ->
           LET result == FSub(a, b)
           IN  IF is_finite(result) THEN Ok(result) ELSE Err("Underflow")
      [] operation = "Multiply" ->
           LET result == FMul(a, b)
           IN  IF is_finite(result) THEN Ok(result) ELSE Err("Overflow")
      [] operation = "Divide" ->
           IF b = 0 THEN Err("DivisionByZero")
           ELSE LET result == FDiv(a, b)
                IN  IF is_finite(result) THEN Ok(result) ELSE Err("Overflow")
      [] operation = "Power" ->
           LET result == powf(a, b)
           IN  IF is_finite(result) THEN Ok(result) ELSE Err("Overflow")
      [] operation = "Modulo" ->
           IF b = 0 THEN Err("DivisionByZero") ELSE Ok(FRem(a, b))

\* new() is with_history_size(100)
DefaultHistorySize == 100
new == with_history_size(DefaultHistorySize)

\* ------------------------------------------------------------- accumulator
(***************************************************************************)
(* src/src/tests.rs (calculator_tests) exercises a second calculator, over *)
(* 64-bit signed integers, with factorial(); its implementation is not     *)
(* among the source files.  It is modelled here from the specification     *)
(* (sections 3, 4.1 and 7): a current value, a bounded history of          *)
(* (description, result) entries, and checked operations that leave the    *)
(* state unchanged when they fail.                                         *)
(*                                                                         *)
(* A 64-bit value is held as a sign and a magnitude, the magnitude as its  *)
(* digits in base Base, least significant first, without leading zeros     *)
(* (zero is the empty sequence), so that 20!, 21! and i64::MAX are exact.  *)
(***************************************************************************)
Base == 10000
\* i64::MAX = 9223372036854775807 and the magnitude of i64::MIN
I64MaxMag == <<5807, 5477, 368, 3372, 922>>
I64MinMag == <<5808, 5477, 368, 3372, 922>>

RECURSIVE Digits(_)
Digits(n) == IF n = 0 THEN <<>> ELSE <<n % Base>> \o Digits(n \div Base)

I64Of(n) == [neg |-> n < 0, mag |-> Digits(Abs(n))]

\* -1, 0 or 1 as the magnitude a is below, equal to or above b.
RECURSIVE BigCmp(_, _)
BigCmp(a, b) ==
    IF Len(a) # Len(b) THEN (IF Len(a) < Len(b) THEN -1 ELSE 1)
    ELSE IF a = <<>> THEN 0
    ELSE IF Last(a) # Last(b) THEN (IF Last(a) < Last(b) THEN -1 ELSE 1)
    ELSE BigCmp(DropLast(a), DropLast(b))

RECURSIVE Normalize(_)
Normalize(a) ==
    IF a # <<>> /\ Last(a) = 0 THEN Normalize(DropLast(a)) ELSE a

RECURSIVE BigAdd(_, _, _)
BigAdd(a, b, carry) ==
    IF a = <<>> /\ b = <<>> THEN Digits(carry)
    ELSE LET x == IF a = <<>> THEN 0 ELSE Head(a)
             y == IF b = <<>> THEN 0 ELSE Head(b)
             t == x + y + carry
         IN  <<t % Base>> \o BigAdd(IF a = <<>> THEN a ELSE Tail(a),
                                    IF b = <<>> THEN b ELSE Tail(b),
                                    t \div Base)

\* a - b - borrow for a >= b + borrow, digit by digit
RECURSIVE BigSubDigits(_, _, _)
BigSubDigits(a, b, borrow) ==
    IF a = <<>> THEN <<>>
    ELSE LET y == IF b = <<>> THEN 0 ELSE Head(b)
             t == Head(a) - y - borrow
         IN  <<t % Base>> \o BigSubDigits(Tail(a),
                                          IF b = <<>> THEN b ELSE Tail(b),
                                          IF t < 0 THEN 1 ELSE 0)
BigSub(a, b) == Normalize(BigSubDigits(a, b, 0))

\* a * k + carry for a small factor k >= 1
RECURSIVE BigMulSmall(_, _, _)
BigMulSmall(a, k, carry) ==
    IF a = <<>> THEN Digits(carry)
    ELSE LET t == Head(a) * k + carry
         IN  <<t % Base>> \o BigMulSmall(Tail(a), k, t \div Base)

\* Whether a sign and magnitude fit in 64-bit signed range.
InI64(x) ==
    IF x.neg THEN BigCmp(x.mag, I64MinMag) <= 0
    ELSE BigCmp(x.mag, I64MaxMag) <= 0

\* The exact sum of two signed values.
Sum(x, y) ==
    IF x.neg = y.neg THEN [neg |-> x.neg, mag |-> BigAdd(x.mag, y.mag, 0)]
    ELSE LET c == BigCmp(x.mag, y.mag)
         IN  IF c = 0 THEN I64Of(0)
             ELSE IF c > 0 THEN [neg |-> x.neg, mag |-> BigSub(x.mag, y.mag)]
             ELSE [neg |-> y.neg, mag |-> BigSub(y.mag, x.mag)]

AccOk(v) == [kind |-> "Ok", value |-> v]
AccErr(e) == [kind |-> e, value |-> I64Of(0)]

\* add(v): current + v, checked; out of range gives Overflow.
checked_add(x, y) ==
    IF InI64(Sum(x, y)) THEN AccOk(Sum(x, y)) ELSE AccErr("Overflow")

\* The product 1 * 2 * ... * n taken one checked multiplication at a time,
\* from factor i on: Overflow as soon as a product exceeds i64::MAX.
RECURSIVE FactorialExclusive(_, _, _)
FactorialExclusive(i, n, result) ==
    IF BigCmp(Digits(i), n) >= 0 THEN AccOk([neg |-> FALSE, mag |-> result])
    ELSE LET product == BigMulSmall(result, i, 0)
         IN  IF BigCmp(product, I64MaxMag) > 0 THEN AccErr("Overflow")
             ELSE FactorialExclusive(i + 1, n, product)

RECURSIVE FactorialLoop(_, _, _)
FactorialLoop(i, n, result) ==
    IF BigCmp(Digits(i), n) > 0 THEN AccOk([neg |-> FALSE, mag |-> result])
    ELSE LET product == BigMulSmall(result, i, 0)
         IN  IF BigCmp(product, I64MaxMag) > 0 THEN AccErr("Overflow")
             ELSE FactorialLoop(i + 1, n, product)

\* A call on the accumulator, while the run is within MaxCalls: on Err only
\* the outcome is noted; on Ok the entry (description, result) is appended,
\* the oldest entry making room if the history was at capacity, and the
\* current value assigned.
AccCommit(name, description, r) ==
    /\ accumulator.calls < MaxCalls
    /\ accumulator' =
          IF r.kind = "Ok"
          THEN [accumulator EXCEPT
                  !.current_value = r.value,
                  !.history =
                      Append(IF Len(@) >= accumulator.capacity
                             THEN RemoveFirst(@) ELSE @,
                             [description |-> description, result |-> r.value]),
                  !.calls = @ + 1,
                  !.ret = [op |-> name, kind |-> "Ok"]]
          ELSE [accumulator EXCEPT
                  !.calls = @ + 1,
                  !.ret = [op |-> name, kind |-> r.kind]]

\* Accumulator::new(): value 0, empty history, the default capacity.
accumulator_new ==
    accumulator = [current_value |-> I64Of(0),
                   history |-> <<>>,
                   capacity |-> DefaultHistorySize,
                   calls |-> 0,
                   ret |-> [op |-> "new", kind |-> "Unit"]]

accumulator_add(v) ==
    AccCommit("add",
              [prev |-> accumulator.current_value, symbol |-> "+",
               operand |-> I64Of(v)],
              checked_add(accumulator.current_value, I64Of(v)))

\* clear(): value 0 and history emptied.
accumulator_clear ==
    /\ accumulator.calls < MaxCalls
    /\ accumulator' = [accumulator EXCEPT
                         !.current_value = I64Of(0),
                         !.history = <<>>,
                         !.calls = @ + 1,
                         !.ret = [op |-> "clear", kind |-> "Unit"]]

\* factorial() with the last factor left out of the product.
factorial_exclusive ==
    AccCommit("factorial",
              [prev |-> accumulator.current_value, symbol |-> "!"],
              IF accumulator.current_value.neg THEN AccErr("Invalid")
              ELSE FactorialExclusive(1, accumulator.current_value.mag,
                                      Digits(1)))

\* factorial(): Invalid below 0, else the stepwise checked product.
factorial ==
    AccCommit("factorial",
              [prev |-> accumulator.current_value, symbol |-> "!"],
              IF accumulator.current_value.neg THEN AccErr("Invalid")
              ELSE FactorialLoop(1, accumulator.current_value.mag, Digits(1)))

\* The addends of accumulator_add.
MaxAddend == 25
Addends == {-1} \cup (0 .. MaxAddend)

\* ------------------------------------------------------------- shapes
\* The f64 comparisons a < b and a == b: false when either side is NaN.
FLt(a, b) == ~is_nan(a) /\ ~is_nan(b) /\ a < b
FEq(a, b) == ~is_nan(a) /\ ~is_nan(b) /\ a = b

\* What a constructor returned: Ok(shape) with its fields, or Err(kind).
Constructed(op, args, kind, dims) ==
    [op |-> op, args |-> args, kind |-> kind, dims |-> dims]

\* No constructor has been called yet.
no_shape == shape = Constructed("none", <<>>, "Unit", <<>>)

Rectangle_new(width, height) ==
    shape' =
        IF FLt(width, 0)
        THEN Constructed("Rectangle::new", <<width, height>>, "NegativeValue", <<>>)
        ELSE IF FLt(height, 0)
        THEN Constructed("Rectangle::new", <<width, height>>, "NegativeValue", <<>>)
        ELSE IF FEq(width, 0)
        THEN Constructed("Rectangle::new", <<width, height>>, "ZeroValue", <<>>)
        ELSE IF FEq(height, 0)
        THEN Constructed("Rectangle::new", <<width, height>>, "ZeroValue", <<>>)
        ELSE Constructed("Rectangle::new", <<width, height>>, "Ok",
                         <<width, height>>)

Circle_new(radius) ==
    shape' =
        IF FLt(radius, 0)
        THEN Constructed("Circle::new", <<radius>>, "NegativeValue", <<>>)
        ELSE IF FEq(radius, 0)
        THEN Constructed("Circle::new", <<radius>>, "ZeroValue", <<>>)
        ELSE Constructed("Circle::new", <<radius>>, "Ok", <<radius>>)

\* ------------------------------------------------------------- specification
Init ==
    /\ new \/ \E max_size \in 0 .. MaxCap : with_history_size(max_size)
    /\ accumulator_new
    /\ no_shape

\* The six arithmetic operations, by method name.
OperationOf ==
    [add |-> "Add", subtract |-> "Subtract", multiply |-> "Multiply",
     divide |-> "Divide", power |-> "Power", modulo |-> "Modulo"]
Arithmetic == DOMAIN OperationOf

\* The step just taken was a successful arithmetic operation.
Succeeded == ret'.op \in Arithmetic /\ ret'.kind = "Ok"
\* The step just taken was a failing arithmetic operation.
Failed == ret'.op \in Arithmetic /\ ret'.kind # "Ok"

\* The history variables follow the call just made: they read the program's
\* state and are read by no operation.
Observe ==
    /\ cleared_nonzero' =
          (cleared_nonzero \/ (ret'.op = "clear_history" /\ current_value # 0))
    /\ before' = current_value
    /\ value_set' = (value_set \/ ret'.op \in {"set_value", "clear"})

\* A call on the calculator together with what the history variable records;
\* the accumulator and the shapes are other objects.
Call(operation) == operation /\ Observe /\ UNCHANGED <<accumulator, shape>>

Next ==
    \/ \E value \in SetValues : Call(set_value(value))
    \/ Call(clear)
    \/ Call(clear_history)
    \/ \E operand \in Operands : Call(add(operand))
    \/ \E operand \in Operands : Call(subtract(operand))
    \/ \E operand \in Operands : Call(multiply(operand))
    \/ \E operand \in Operands : Call(divide(operand))
    \/ \E exponent \in Operands : Call(power(exponent))
    \/ \E operand \in Operands : Call(modulo(operand))
    \/ Call(undo)

Spec == Init /\ [][Next]_vars

\* Runs in which no entry is popped or cleared: the calls that remove no
\* entry from the history other than by eviction.
NextRecording ==
    \/ \E value \in SetValues : Call(set_value(value))
    \/ Call(clear)
    \/ \E operand \in Operands : Call(add(operand))
    \/ \E operand \in Operands : Call(subtract(operand))
    \/ \E operand \in Operands : Call(multiply(operand))
    \/ \E operand \in Operands : Call(divide(operand))
    \/ \E exponent \in Operands : Call(power(exponent))
    \/ \E operand \in Operands : Call(modulo(operand))

SpecRecording == Init /\ [][NextRecording]_vars

\* Runs of the six arithmetic operations only.
NextArithmetic ==
    \/ \E operand \in Operands : Call(add(operand))
    \/ \E operand \in Operands : Call(subtract(operand))
    \/ \E operand \in Operands : Call(multiply(operand))
    \/ \E operand \in Operands : Call(divide(operand))
    \/ \E exponent \in Operands : Call(power(exponent))
    \/ \E operand \in Operands : Call(modulo(operand))

SpecArithmetic == Init /\ [][NextArithmetic]_vars

\* The accumulator alone: a call on it leaves the calculator as it is.
AccumulatorCall(operation) == operation /\ UNCHANGED <<calculator, shape>>

InitAccumulator == new /\ accumulator_new /\ no_shape

NextAccumulator ==
    \/ \E v \in Addends : AccumulatorCall(accumulator_add(v))
    \/ AccumulatorCall(accumulator_clear)
    \/ AccumulatorCall(factorial)

SpecAccumulator == InitAccumulator /\ [][NextAccumulator]_vars

\* The shape constructors alone, called with every f64 of the format.
Construct(constructor) == constructor /\ UNCHANGED <<calculator, accumulator>>

InitShapes == new /\ accumulator_new /\ no_shape

NextShapes ==
    \/ \E width, height \in F64 : Construct(Rectangle_new(width, height))
    \/ \E radius \in F64 : Construct(Circle_new(radius))

SpecShapes == InitShapes /\ [][NextShapes]_vars

\* ------------------------------------------------------------- properties
\* The numbers, in the order recorded, of the entries the history holds.
Timestamps == [i \in 1 .. Len(history) |-> history[i].timestamp]

\* C1: a failing add, subtract, multiply, divide, modulo or power leaves
\* current_value and the whole history exactly as they were before the call.
C1_FailureChangesNothing ==
    [][Failed => (current_value' = current_value /\ history' = history)]_vars

\* A multiply has just failed on a calculator that holds a value and an entry.
C1_Witness ==
    /\ ret.op = "multiply"
    /\ ret.kind = "Overflow"
    /\ current_value # 0
    /\ history # <<>>

\* C2: the history never holds more than max_history_size entries, for any
\* capacity given at construction.
C2_HistoryBounded == Len(history) <= max_history_size

\* A full history of capacity 2 whose first entry has been evicted.
C2_Witness ==
    /\ max_history_size = 2
    /\ Len(history) = 2
    /\ recorded = 3
    /\ Timestamps = <<2, 3>>

C4_ClearEmptiesHistory ==
    ret.op = "clear" => (current_value = 0 /\ history = <<>>)

\* C5: on a calculator of capacity N, after N + 1 successful operations the
\* history holds exactly N entries, the first operation's entry is not among
\* them, and they are the entries of operations 2 .. N + 1, oldest first.
C5_FifoEviction ==
    recorded = max_history_size + 1 =>
        /\ Len(history) = max_history_size
        /\ \A i \in 1 .. Len(history) : Timestamps[i] # 1
        /\ Timestamps = [i \in 1 .. max_history_size |-> i + 1]

\* Three operations have been recorded on a calculator of capacity 2.
C5_Witness ==
    /\ max_history_size = 2
    /\ recorded = 3
    /\ Len(history) = 2

\* The entry add, subtract or multiply records for the call just made.
Recorded(result) ==
    HistoryEntry(current_value, OperationOf[ret'.op], ret'.operand, result,
                 recorded')
\* The f64 sum, difference or product the call just made computes.
Computed ==
    CASE ret'.op = "add" -> FAdd(current_value, ret'.operand)
      [] ret'.op = "subtract" -> FSub(current_value, ret'.operand)
      [] ret'.op = "multiply" -> FMul(current_value, ret'.operand)
SucceededAddSubMul ==
    ret'.op \in {"add", "subtract", "multiply"} /\ ret'.kind = "Ok"

\* C6, as claimed: a successful add, subtract or multiply sets current_value
\* to a + b, a - b or a * b and appends one entry, which is then the last
\* entry of the history and carries that result.
C6_AsClaimed ==
    [][SucceededAddSubMul =>
          /\ current_value' = Computed
          /\ history' # <<>>
          /\ Last(history') = Recorded(Computed)]_vars

\* C6, amended: a successful add, subtract or multiply sets current_value to
\* the f64 sum, difference or product and pushes one entry carrying it; with
\* max_history_size >= 1 that entry is the last of the history, after the
\* entries already there (less the oldest when the history was full); with
\* max_history_size = 0 it is evicted at once and the history stays empty.
C6_AddSubMulCommit ==
    [][SucceededAddSubMul =>
          /\ current_value' = Computed
          /\ ret'.value = Computed
          /\ is_finite(Computed)
          /\ IF max_history_size = 0
             THEN history' = <<>>
             ELSE /\ Last(history') = Recorded(Computed)
                  /\ DropLast(history') =
                         IF Len(history) < max_history_size
                         THEN history
                         ELSE RemoveFirst(history)]_vars

\* A successful subtract on a full history has left a non-zero difference.
C6_Witness ==
    /\ ret.op = "subtract"
    /\ ret.kind = "Ok"
    /\ ret.operand # 0
    /\ max_history_size = 1
    /\ recorded = 2
    /\ Last(history).result = current_value

\* C7: divide(0) and modulo(0) return DivisionByZero for every
\* current_value.
C7_ZeroDivisor ==
    (ret.op \in {"divide", "modulo"} /\ ret.operand = 0)
        => ret.kind = "DivisionByZero"

\* divide(0) has been refused at an infinite current_value.
C7_Witness ==
    /\ ret.op = "divide"
    /\ ret.operand = 0
    /\ ret.kind = "DivisionByZero"
    /\ is_infinite(current_value)

\* C8, as claimed: add fails with Overflow whenever its result is out of
\* range, and subtract fails with Underflow whenever its result is.
C8_AsClaimed ==
    [][/\ (ret'.op = "add" /\ is_infinite(FAdd(current_value, ret'.operand)))
            => ret'.kind = "Overflow"
       /\ (ret'.op = "subtract" /\ is_infinite(FSub(current_value, ret'.operand)))
            => ret'.kind = "Underflow"]_vars

\* C8, amended: add fails with Overflow whenever its result is infinite;
\* subtract fails with Underflow whenever its result is -infinity and with
\* Overflow whenever it is +infinity.
C8_OutOfRange ==
    [][/\ (ret'.op = "add" /\ is_infinite(FAdd(current_value, ret'.operand)))
            => ret'.kind = "Overflow"
       /\ (ret'.op = "subtract" /\ FSub(current_value, ret'.operand) = NInf)
            => ret'.kind = "Underflow"
       /\ (ret'.op = "subtract" /\ FSub(current_value, ret'.operand) = PInf)
            => ret'.kind = "Overflow"]_vars

\* subtract has failed with Overflow on finite operands.
C8_Witness ==
    /\ ret.op = "subtract"
    /\ ret.kind = "Overflow"
    /\ is_finite(current_value)
    /\ is_finite(ret.operand)

\* C9: clear_history() empties the history and leaves current_value as it
\* was.
C9_ClearHistoryKeepsValue ==
    [][ret'.op = "clear_history" =>
          (history' = <<>> /\ current_value' = current_value)]_vars

\* clear_history has emptied a history that held an entry, at a non-zero
\* current_value.
C9_Witness ==
    /\ ret.op = "clear_history"
    /\ history = <<>>
    /\ recorded >= 1
    /\ max_history_size >= 1
    /\ clock = recorded + 1
    /\ current_value # 0

\* n! for a small n, by the recurrence n! = n * (n - 1)!
RECURSIVE BigFactorial(_)
BigFactorial(n) ==
    IF n = 0 THEN Digits(1) ELSE BigMulSmall(BigFactorial(n - 1), n, 0)

\* The accumulator's value as a small natural number, for 0 .. Base - 1.
Small(x) == IF x.mag = <<>> THEN 0 ELSE x.mag[1]

AccumulatorUnchanged ==
    /\ accumulator'.current_value = accumulator.current_value
    /\ accumulator'.history = accumulator.history

C11_HelperAgrees ==
    [][ret'.op \in {"add", "subtract", "multiply", "divide"} =>
          LET simple == calculate_simple(current_value, OperationOf[ret'.op],
                                         ret'.operand)
          IN  /\ simple.kind = ret'.kind
              /\ simple.kind = "Ok" => simple.value = ret'.value]_vars

\* The errors the claim allows for one invalid dimension: -infinity is both
\* negative and infinite.
ClaimedErrors(d) ==
    IF is_nan(d) \/ d = PInf THEN {"InvalidDimension"}
    ELSE IF d = NInf THEN {"InvalidDimension", "NegativeValue"}
    ELSE IF d < 0 THEN {"NegativeValue"}
    ELSE {"ZeroValue"}
ValidDimension(d) == is_finite(d) /\ d > 0
Arguments == {shape.args[i] : i \in 1 .. Len(shape.args)}

\* C12: Rectangle::new and Circle::new reject every invalid dimension, with
\* NegativeValue for a negative one, ZeroValue for a zero one and
\* InvalidDimension for a NaN or infinite one (for a rectangle, the error of
\* one of its invalid dimensions); every constructed shape has finite,
\* strictly positive dimensions.
C12_InvalidDimensionsRejected ==
    shape.op \in {"Rectangle::new", "Circle::new"} =>
        IF \A d \in Arguments : ValidDimension(d)
        THEN shape.kind = "Ok" /\ shape.dims = shape.args
        ELSE \E d \in Arguments :
                 ~ValidDimension(d) /\ shape.kind \in ClaimedErrors(d)

\* The call before the one just made was a successful arithmetic operation.
AfterSuccess == ret.op \in Arithmetic /\ ret.kind = "Ok"

\* C13, as claimed: for every capacity, undo() right after a successful
\* arithmetic operation returns Ok with the value current_value had before
\* that operation, sets current_value to it and removes the entry the
\* operation recorded.
C13_AsClaimed ==
    [][(ret'.op = "undo" /\ AfterSuccess) =>
          /\ ret'.kind = "Ok"
          /\ ret'.value = before
          /\ current_value' = before
          /\ history # <<>>
          /\ Last(history).timestamp = recorded
          /\ history' = DropLast(history)]_vars

\* C13, amended: the same on a calculator with max_history_size >= 1; with
\* max_history_size = 0 the operation's entry is evicted at once, and undo()
\* returns HistoryEmpty and changes nothing.
C13_UndoRestores ==
    [][(ret'.op = "undo" /\ AfterSuccess) =>
          IF max_history_size >= 1
          THEN /\ ret'.kind = "Ok"
               /\ ret'.value = before
               /\ current_value' = before
               /\ history # <<>>
               /\ Last(history).timestamp = recorded
               /\ history' = DropLast(history)
          ELSE /\ ret'.kind = "HistoryEmpty"
               /\ current_value' = current_value
               /\ history' = history]_vars

\* undo() has restored the value a successful operation had replaced, on a
\* full history of capacity 1 whose first entry had been evicted: the
\* history is left empty.
C13_Witness ==
    /\ ret.op = "undo"
    /\ ret.kind = "Ok"
    /\ max_history_size = 1
    /\ recorded = 2
    /\ history = <<>>
    /\ before # current_value
    /\ current_value # 0

\* Each entry's operand1 is the result of the entry before it.
Chained ==
    \A i \in 2 .. Len(history) : history[i].operand1 = history[i - 1].result

\* C14, as claimed: in every reachable state, after any sequence of public
\* operations (set_value, clear and undo included), each history entry's
\* operand1 equals the result of the entry immediately before it.
C14_AsClaimed == Chained

\* C14, amended: as long as neither set_value nor clear has been called,
\* each history entry's operand1 is the result of the entry immediately
\* before it, and current_value is the result of the last entry, so that
\* the next entry continues the chain (undo included).
C14_ChainedWithoutSetValue ==
    ~value_set =>
        /\ Chained
        /\ history # <<>> => current_value = Last(history).result

\* Two chained entries with different results, the second recorded by the
\* last call.
C14_Witness ==
    /\ ~value_set
    /\ Len(history) = 2
    /\ ret.kind = "Ok"
    /\ ret.op \in Arithmetic
    /\ history[2].operand1 = history[1].result
    /\ history[2].result # history[1].result
    /\ history[1].result # history[1].operand1

\* C15: from a new calculator, after any sequence of add, subtract,
\* multiply, divide, power and modulo calls with arbitrary operands
\* (infinite and NaN included), current_value and every recorded history
\* result are finite: an infinite or NaN result is never committed.
C15_OnlyFiniteCommitted ==
    /\ is_finite(current_value)
    /\ \A i \in 1 .. Len(history) : is_finite(history[i].result)
    /\ ret.kind = "Ok" => is_finite(ret.value)
=============================================================================
